---------------------------- MODULE Spec2Model ----------------------------
(***************************************************************************)
(* A state-machine model of the RAG chatbot repository:                    *)
(*   src/src/config/logger_config.py   setup_logger                        *)
(*   src/src/indexing/create_index.py  the index-creation script           *)
(*   src/src/ingesting/ingest.py       the ingestion script                *)
(*   src/src/query/query.py            the Streamlit chat application      *)
(*                                                                         *)
(* One behaviour is one execution of one program, chosen in Init by the    *)
(* variable `script`.  Python strings are TLA+ strings (concatenation is   *)
(* \o), Python lists are sequences, an optional value (None or a string)   *)
(* is the empty sequence or a one-element sequence, and a dict is a        *)
(* function whose domain is the set of keys present.  The external         *)
(* services (Azure OpenAI, Azure Cognitive Search, the llama-index         *)
(* pipeline) are the environment: each call either returns a value drawn   *)
(* from a small set or raises an exception derived from Exception.         *)
(***************************************************************************)
EXTENDS Integers, Sequences, FiniteSets, TLC

VARIABLES
    script,         \* which program this behaviour executes
    pc,             \* position of the program in its source text
    env,            \* os.environ after load_dotenv(): setting name -> optional string
    loggers,        \* logging's logger table: name -> logger object (or unborn)
    firstArgs,      \* per logger name, the arguments of the first setup_logger call
    nSetup,         \* setup_logger calls made so far when the module is used directly
    consoleUtf8,    \* whether sys.stdout's encoding is UTF-8
    delivered,      \* the handlers that received the last emitted record
    log,            \* records logged in the current run: <<level name, message key>>
    calls,          \* trace of the current run: external calls, client constructions, steps
    thrown,         \* the exceptions external steps threw in this run, with the step
    raised,         \* the exception that left the program uncaught (or none)
    indexes,        \* index names held by the search service
    deleted,        \* whether this run's delete_index call succeeded
    existing_indexes, \* create_index: the listed index names (optional)
    session,        \* st.session_state: <<>> or <<chat_history>>
    prompt,         \* the value st.chat_input returns in the current script run
    nPrompts,       \* prompts submitted so far in the session
    histAtCall,     \* chat_history as it was when generate_answer was entered
    query_embedding,\* get_top_chunks: the embedding of the query (optional)
    results,        \* get_top_chunks: the search results iterated in this run
    chunks,         \* get_top_chunks: chunks / generate_answer: context_chunks
    context_text,   \* generate_answer: the joined context
    messages,       \* generate_answer: the list sent to the chat-completion API
    sent,           \* the message list the chat-completion API received
    searched,       \* the vector the search was issued with (optional)
    answer          \* generate_answer: the answer (optional until set)

vars == << script, pc, env, loggers, firstArgs, nSetup, consoleUtf8, delivered,
           log, calls, thrown, raised, indexes, deleted, existing_indexes,
           session, prompt, nPrompts, histAtCall, query_embedding, results, chunks,
           context_text, messages, sent, searched, answer >>

loggerVars == << loggers, firstArgs, nSetup, delivered >>
queryVars  == << session, prompt, nPrompts, histAtCall, query_embedding,
                 results, chunks, context_text, messages, sent, searched,
                 answer >>

---------------------------------------------------------------------------
(* Bounds of the model.                                                    *)

MaxSetupCalls == 3      \* setup_logger calls made when the module is used directly
MaxPrompts    == 2      \* prompts submitted in one chat session
MaxResults    == 2      \* results the search service yields for one query

---------------------------------------------------------------------------
(* Python values.                                                          *)

None == << >>
Some(s) == << s >>

\* Python truthiness of an optional string: None and "" are falsy.
Truthy(v) == v # None /\ v[1] # ""

\* str(v) as an f-string formats it.
Str(v) == IF v = None THEN "None" ELSE v[1]

\* Python's `a or b`.
Or(a, b) == IF Truthy(a) THEN a ELSE b

\* dict.get(key, default)
Get(d, key, default) == IF key \in DOMAIN d THEN d[key] ELSE default

\* os.getenv(name, default)
GetEnv(name, default) == IF env[name] = None THEN default ELSE env[name]

Last(s) == s[Len(s)]

noExc == [type |-> "none", msg |-> ""]

\* The exceptions external calls raise: subclasses of Exception.
ExcMsgs == {"timed out", "403 forbidden"}
Exceptions == [type : {"Exception"}, msg : ExcMsgs]


---------------------------------------------------------------------------
(* src/config/logger_config.py                                             *)

\* logging's level numbers.
Level == [NOTSET |-> 0, DEBUG |-> 10, INFO |-> 20, WARNING |-> 30,
          ERROR |-> 40, CRITICAL |-> 50]

LoggerNames == {"__main__", "src.other"}
LogFiles    == {"chat.log", "index.log"}
SetupLevels == {Level.DEBUG, Level.INFO}

\* RotatingFileHandler(filename = LOG_DIR / log_file, ...), fh.setLevel(level)
FileHandler(log_file, level) ==
    [kind |-> "file", file |-> "logs/" \o log_file, level |-> level,
     filter |-> FALSE]

\* StreamHandler(stream = sys.stdout), the filter added unless the console
\* supports UTF-8, ch.setLevel(level)
ConsoleHandler(level, utf8) ==
    [kind |-> "console", file |-> "", level |-> level, filter |-> ~utf8]

\* logging.getLogger(name) of a name never seen: a fresh logger.
FreshLogger == [level |-> Level.NOTSET, propagate |-> TRUE, handlers |-> << >>]

\* The root logger: level WARNING, without a handler or (when the host
\* configured logging) with a console handler of its own.
RootLoggers ==
    { [level |-> Level.WARNING, propagate |-> TRUE, handlers |-> << >>],
      [level |-> Level.WARNING, propagate |-> TRUE,
       handlers |-> << ConsoleHandler(Level.NOTSET, TRUE) >>] }

\* The logger object after setup_logger(name, log_file, level), given the
\* object logging.getLogger(name) returned.
SetupLoggerAlwaysAttach(lg, log_file, level, utf8) ==
    [level |-> level, propagate |-> FALSE,
     handlers |-> lg.handlers \o << FileHandler(log_file, level),
                                    ConsoleHandler(level, utf8) >>]

SetupLogger(lg, log_file, level, utf8) ==
    LET l1 == [lg EXCEPT !.level = level, !.propagate = FALSE]
    IN  IF l1.handlers # << >>
        THEN l1
        ELSE LET l2 == [l1 EXCEPT !.handlers =
                            Append(@, FileHandler(log_file, level))]
             IN  [l2 EXCEPT !.handlers =
                            Append(@, ConsoleHandler(level, utf8))]

\* Where a handler writes.
Dest(h) == IF h.kind = "file" THEN h.file ELSE "console"

\* Logger.callHandlers: the handlers of the logger that accept the level,
\* then, while propagate is set, those of the parent (the root logger).
CallHandlers(tbl, name, levelno) ==
    LET own  == SelectSeq(tbl[name].handlers, LAMBDA h : levelno >= h.level)
        root == SelectSeq(tbl["root"].handlers, LAMBDA h : levelno >= h.level)
    IN  IF tbl[name].propagate THEN own \o root ELSE own

\* Logger.isEnabledFor: the logger's level, or the root's when it is NOTSET.
Enabled(tbl, name, levelno) ==
    LET eff == IF tbl[name].level # Level.NOTSET THEN tbl[name].level
               ELSE tbl["root"].level
    IN  levelno >= eff

\* logger.<level>(msg) of the script's logger: the run's log with the record
\* appended when the logger lets it through.
Logged(tbl, lg, lvl, msg) ==
    IF Enabled(tbl, "__main__", Level[lvl]) THEN Append(lg, << lvl, msg >>)
    ELSE lg

\* The logger table after the call setup_logger(name, log_file, level).
AfterSetup(name, f, lv) ==
    [loggers EXCEPT ![name] = SetupLogger(@, f, lv, consoleUtf8)]

\* A call of setup_logger: the table is updated and the arguments of the
\* first call for the name are remembered.
SetupCall(name, f, lv) ==
    /\ loggers' = AfterSetup(name, f, lv)
    /\ firstArgs' = [firstArgs EXCEPT
                       ![name] = IF @ = None
                                 THEN Some([log_file |-> f, level |-> lv])
                                 ELSE @]

\* Any module calls setup_logger with any name, log file and level.
CallSetupLogger ==
    /\ script = "logger_config"
    /\ nSetup < MaxSetupCalls
    /\ \E name \in LoggerNames, f \in LogFiles, lv \in SetupLevels :
          SetupCall(name, f, lv)
    /\ nSetup' = nSetup + 1
    /\ UNCHANGED << script, pc, env, consoleUtf8, delivered, log, calls,
                    thrown, raised, indexes, deleted, existing_indexes >>
    /\ UNCHANGED queryVars

\* A record is logged on a logger that was set up.
EmitRecord ==
    /\ script = "logger_config"
    /\ \E name \in LoggerNames, lv \in {Level.DEBUG, Level.INFO, Level.ERROR} :
          /\ firstArgs[name] # None
          /\ Enabled(loggers, name, lv)
          /\ delivered' = CallHandlers(loggers, name, lv)
    /\ UNCHANGED << script, pc, env, loggers, firstArgs, nSetup, consoleUtf8,
                    log, calls, thrown, raised, indexes, deleted, existing_indexes >>
    /\ UNCHANGED queryVars

---------------------------------------------------------------------------
(* Environment settings and what a run leaves behind.                      *)

Settings == {"AZURE_SEARCH_ENDPOINT", "AZURE_SEARCH_API_KEY",
             "AZURE_SEARCH_INDEX", "AZURE_OPENAI_ENDPOINT",
             "AZURE_OPENAI_API_KEY", "AZURE_OPENAI_EMBED_DEPLOYMENT"}

\* The settings each script reads with os.getenv.
ReadBy(s) ==
    CASE s = "create_index" ->
            {"AZURE_SEARCH_ENDPOINT", "AZURE_SEARCH_API_KEY", "AZURE_SEARCH_INDEX"}
      [] s = "ingest" -> Settings
      [] s = "query" -> Settings \ {"AZURE_OPENAI_EMBED_DEPLOYMENT"}
      [] OTHER -> {}

\* A setting is unset, set to the empty string, or set to a value.
EnvValues(name) ==
    {None, Some(""),
     Some(IF name = "AZURE_SEARCH_INDEX" THEN "docs-index" ELSE "set")}

noThrow == << >>

\* logger.exception(msg) in a handler, then the exception leaves the script
\* and sys.excepthook (install_global_exception_hook) logs it.
Uncaught(tbl, lg) == Logged(tbl, lg, "CRITICAL", "Uncaught exception")

Count(seq, x) == Cardinality({i \in DOMAIN seq : seq[i] = x})

---------------------------------------------------------------------------
(* src/indexing/create_index.py                                            *)

\* os.getenv("AZURE_SEARCH_INDEX", "client-manual-index")
AZURE_SEARCH_INDEX == Str(GetEnv("AZURE_SEARCH_INDEX", Some("client-manual-index")))

\* `if not AZURE_SEARCH_ENDPOINT or not AZURE_SEARCH_API_KEY`
IndexConfigMissingEndpointOnly ==
    ~Truthy(env["AZURE_SEARCH_ENDPOINT"])

IndexConfigMissing ==
    \/ ~Truthy(env["AZURE_SEARCH_ENDPOINT"])
    \/ ~Truthy(env["AZURE_SEARCH_API_KEY"])

\* Lines 16-35: logger set-up, settings read and validated.
IndexStartup ==
    /\ script = "create_index" /\ pc = "start"
    /\ SetupCall("__main__", "index.log", Level.INFO)
    /\ LET tbl == AfterSetup("__main__", "index.log", Level.INFO)
       IN  /\ IF IndexConfigMissing
              THEN /\ log' = Uncaught(tbl, Logged(tbl, log, "ERROR",
                                "Missing Azure Search configuration in .env"))
                   /\ raised' = [type |-> "ValueError",
                                 msg |-> "Azure Search endpoint and key must be set in environment variables"]
                   /\ pc' = "error"
              ELSE /\ log' = Logged(tbl, Logged(tbl, log, "INFO",
                                "Starting index creation process"),
                                "DEBUG", "Using endpoint")
                   /\ raised' = raised
                   /\ pc' = "client"
    /\ UNCHANGED << script, env, nSetup, consoleUtf8, delivered, calls,
                    thrown, indexes, deleted, existing_indexes >>
    /\ UNCHANGED queryVars

\* Lines 41-78: the index client and the index definition are built.
IndexInitClient ==
    /\ script = "create_index" /\ pc = "client"
    /\ calls' = Append(calls, "SearchIndexClient")
    /\ pc' = "list"
    /\ UNCHANGED << script, env, consoleUtf8, log, thrown, raised, indexes,
                    deleted, existing_indexes >>
    /\ UNCHANGED loggerVars
    /\ UNCHANGED queryVars

\* Lines 95-98: the handler of the try block logs and re-raises.
IndexHandlerSwallow(lg, step, e) ==
    /\ log' = Logged(loggers, lg, "ERROR", "Failed to create/update index")
    /\ thrown' = Append(thrown, [step |-> step, exc |-> e])
    /\ raised' = raised
    /\ pc' = "done"

IndexHandler(lg, step, e) ==
    /\ log' = Uncaught(loggers,
                 Logged(loggers, lg, "ERROR", "Failed to create/update index"))
    /\ thrown' = Append(thrown, [step |-> step, exc |-> e])
    /\ raised' = e
    /\ pc' = "error"

\* Line 87: `if AZURE_SEARCH_INDEX in existing_indexes`
IndexExistsAlways(existing) == TRUE

IndexExists(existing) == AZURE_SEARCH_INDEX \in existing

\* Lines 86-88: the index names are listed and the configured one looked up.
IndexList ==
    /\ script = "create_index" /\ pc = "list"
    /\ calls' = Append(calls, "list_index_names")
    /\ \/ /\ existing_indexes' = Some(indexes)
          /\ IF IndexExists(indexes)
             THEN /\ log' = Logged(loggers, log, "INFO",
                                   "Index already exists. Deleting old version")
                  /\ pc' = "delete"
             ELSE /\ log' = log
                  /\ pc' = "create"
          /\ UNCHANGED << thrown, raised >>
       \/ /\ \E e \in Exceptions : IndexHandler(log, "list_index_names", e)
          /\ UNCHANGED existing_indexes
    /\ UNCHANGED << script, env, consoleUtf8, indexes, deleted >>
    /\ UNCHANGED loggerVars
    /\ UNCHANGED queryVars

\* Line 89: index_client.delete_index(AZURE_SEARCH_INDEX)
IndexDelete ==
    /\ script = "create_index" /\ pc = "delete"
    /\ calls' = Append(calls, "delete_index")
    /\ \/ /\ indexes' = indexes \ {AZURE_SEARCH_INDEX}
          /\ deleted' = TRUE
          /\ pc' = "create"
          /\ UNCHANGED << log, thrown, raised >>
       \/ /\ \E e \in Exceptions : IndexHandler(log, "delete_index", e)
          /\ UNCHANGED << indexes, deleted >>
    /\ UNCHANGED << script, env, consoleUtf8, existing_indexes >>
    /\ UNCHANGED loggerVars
    /\ UNCHANGED queryVars

\* Lines 91-93: index_client.create_index(index)
IndexCreate ==
    /\ script = "create_index" /\ pc = "create"
    /\ calls' = Append(calls, "create_index")
    /\ \/ /\ indexes' = indexes \cup {AZURE_SEARCH_INDEX}
          /\ log' = Logged(loggers,
                       Logged(loggers, log, "INFO", "Creating index"),
                       "INFO", "Index created successfully!")
          /\ pc' = "done"
          /\ UNCHANGED << thrown, raised >>
       \/ /\ \E e \in Exceptions :
                IndexHandler(Logged(loggers, log, "INFO", "Creating index"),
                             "create_index", e)
          /\ UNCHANGED indexes
    /\ UNCHANGED << script, env, consoleUtf8, deleted, existing_indexes >>
    /\ UNCHANGED loggerVars
    /\ UNCHANGED queryVars

---------------------------------------------------------------------------
(* src/ingesting/ingest.py                                                 *)

\* `if not search_endpoint or not search_key or not search_index`
IngestSearchMissing ==
    \/ ~Truthy(env["AZURE_SEARCH_ENDPOINT"])
    \/ ~Truthy(env["AZURE_SEARCH_API_KEY"])
    \/ ~Truthy(env["AZURE_SEARCH_INDEX"])

\* `if not aoai_endpoint or not aoai_key or not aoai_embed_model`
IngestOpenAIMissing ==
    \/ ~Truthy(env["AZURE_OPENAI_ENDPOINT"])
    \/ ~Truthy(env["AZURE_OPENAI_API_KEY"])
    \/ ~Truthy(env["AZURE_OPENAI_EMBED_DEPLOYMENT"])

\* Lines 17-50: logger set-up, settings read and validated.
IngestStartup ==
    /\ script = "ingest" /\ pc = "start"
    /\ SetupCall("__main__", "ingest.log", Level.INFO)
    /\ LET tbl == AfterSetup("__main__", "ingest.log", Level.INFO)
       IN  IF IngestSearchMissing
           THEN /\ log' = Uncaught(tbl, Logged(tbl, log, "ERROR",
                             "Missing Azure Search configuration in .env"))
                /\ raised' = [type |-> "ValueError",
                              msg |-> "Azure Search settings must be set in environment variables"]
                /\ pc' = "error"
           ELSE IF IngestOpenAIMissing
           THEN /\ log' = Uncaught(tbl, Logged(tbl, log, "ERROR",
                             "Missing Azure OpenAI configuration in .env"))
                /\ raised' = [type |-> "ValueError",
                              msg |-> "Azure OpenAI settings must be set in environment variables"]
                /\ pc' = "error"
           ELSE /\ log' = Logged(tbl, Logged(tbl, log, "INFO",
                             "Starting ingestion process"),
                             "DEBUG", "Using index")
                /\ raised' = raised
                /\ pc' = "load"
    /\ UNCHANGED << script, env, nSetup, consoleUtf8, delivered, calls,
                    thrown, indexes, deleted, existing_indexes >>
    /\ UNCHANGED queryVars

\* Lines 68-70 and 126-128: the handler of a try block logs and re-raises.
IngestHandler(lg, msg, step, e) ==
    /\ log' = Uncaught(loggers, Logged(loggers, lg, "ERROR", msg))
    /\ thrown' = Append(thrown, [step |-> step, exc |-> e])
    /\ raised' = e
    /\ pc' = "error"

\* Lines 61-70: SimpleDirectoryReader(...).load_data()
IngestLoad ==
    /\ script = "ingest" /\ pc = "load"
    /\ calls' = Append(calls, "load_data")
    /\ LET lg == Logged(loggers, log, "INFO",
                        "Reading PDFs from local data folder...")
       IN  \/ /\ log' = Logged(loggers, lg, "INFO", "Loaded documents")
              /\ pc' = "setup"
              /\ UNCHANGED << thrown, raised >>
           \/ \E e \in Exceptions :
                 IngestHandler(lg, "Failed while reading documents",
                               "load_data", e)
    /\ UNCHANGED << script, env, consoleUtf8, indexes, deleted, existing_indexes >>
    /\ UNCHANGED loggerVars
    /\ UNCHANGED queryVars

\* Lines 77-113: embedding model, search client, vector store, storage
\* context and splitter; none of it is inside a try block, so an exception
\* here reaches sys.excepthook directly.
IngestSetup ==
    /\ script = "ingest" /\ pc = "setup"
    /\ LET lg == Logged(loggers, Logged(loggers, log, "INFO",
                     "Initializing Azure OpenAI embedding model..."),
                     "INFO", "Connecting to Azure AI Search vector store...")
       IN  \/ /\ calls' = calls \o << "AzureOpenAIEmbedding", "SearchClient",
                                      "AzureAISearchVectorStore" >>
              /\ log' = Logged(loggers, Logged(loggers, lg, "INFO",
                           "Splitting documents into smaller chunks..."),
                           "INFO", "Split documents into chunks")
              /\ pc' = "build"
              /\ UNCHANGED << thrown, raised >>
           \/ \E e \in Exceptions :
                 /\ calls' = calls \o << "AzureOpenAIEmbedding", "SearchClient",
                                         "AzureAISearchVectorStore" >>
                 /\ log' = Uncaught(loggers, lg)
                 /\ thrown' = Append(thrown, [step |-> "AzureAISearchVectorStore",
                                               exc |-> e])
                 /\ raised' = e
                 /\ pc' = "error"
    /\ UNCHANGED << script, env, consoleUtf8, indexes, deleted, existing_indexes >>
    /\ UNCHANGED loggerVars
    /\ UNCHANGED queryVars

\* Lines 118-128: VectorStoreIndex(nodes, ...) embeds and pushes the chunks.
IngestBuild ==
    /\ script = "ingest" /\ pc = "build"
    /\ calls' = Append(calls, "VectorStoreIndex")
    /\ LET lg == Logged(loggers, log, "INFO",
                        "Building index and pushing to Azure AI Search...")
       IN  \/ /\ log' = Logged(loggers, lg, "INFO",
                               "Successfully pushed chunks into Azure AI Search index")
              /\ pc' = "done"
              /\ UNCHANGED << thrown, raised >>
           \/ \E e \in Exceptions :
                 IngestHandler(lg, "Failed while building/pushing index",
                               "VectorStoreIndex", e)
    /\ UNCHANGED << script, env, consoleUtf8, indexes, deleted, existing_indexes >>
    /\ UNCHANGED loggerVars
    /\ UNCHANGED queryVars

---------------------------------------------------------------------------
(* src/query/query.py                                                      *)

\* generate_answer calls get_top_chunks(user_query, top_k=10).
TopK == 10

Queries == {"What are the fees?", "Opening hours?"}
Answers == {"Fees are 2% (manual.pdf)."}

\* Documents the search service may return (select = content, metadata,
\* doc_id): a key may be absent, null, empty or filled.
SearchDocs ==
    { [content |-> Some("Fees are 2%."), metadata |-> Some("manual.pdf"),
       doc_id |-> Some("d1")],
      [content |-> Some("Open 9-5."), doc_id |-> Some("d2")],
      [content |-> Some(""), metadata |-> Some("manual.pdf"),
       doc_id |-> Some("d3")],
      [content |-> None, metadata |-> Some(""), doc_id |-> Some("d4")] }

SystemInstruction ==
    "You are a helpful assistant. Use the provided context to answer questions accurately. "
    \o "If the context is insufficient, give the most careful, concise answer possible. "
    \o "Always cite the sources when available. Do not hallucinate beyond the context."

\* "\n".join(list)
RECURSIVE JoinNl(_)
JoinNl(list) ==
    IF list = << >> THEN ""
    ELSE IF Len(list) = 1 THEN list[1]
    ELSE list[1] \o "\n" \o JoinNl(Tail(list))

\* Lines 110-114: the chunk list after one search result is processed.
CollectUnfiltered(list, r) ==
    LET content  == Get(r, "content", None)
        metadata == Get(r, "metadata", Some(""))
        doc_id   == Get(r, "doc_id", Some(""))
    IN  Append(list, Str(content) \o "\n(Source: "
                     \o Str(Or(metadata, doc_id)) \o ")")

Collect(list, r) ==
    LET content  == Get(r, "content", None)
        metadata == Get(r, "metadata", Some(""))
        doc_id   == Get(r, "doc_id", Some(""))
    IN  IF Truthy(content)
        THEN Append(list, Str(content) \o "\n(Source: "
                          \o Str(Or(metadata, doc_id)) \o ")")
        ELSE list

\* Line 138: context_text
ContextText(context_chunks) ==
    IF context_chunks # << >> THEN JoinNl(context_chunks) ELSE ""

\* Lines 141-157: the message list, and the caller's chat_history after it
\* was built (copy.deepcopy leaves the caller's list alone).
BuildMessagesInPlace(chat_history, ctx, user_query) ==
    LET msgs == chat_history \o
                << [role |-> "system", content |-> SystemInstruction],
                   [role |-> "user",
                    content |-> "Context:\n" \o ctx \o "\n\nQuestion: "
                                \o user_query] >>
    IN  [messages |-> msgs, chat_history |-> msgs]

BuildMessages(chat_history, ctx, user_query) ==
    LET copy == chat_history
        m1 == Append(copy, [role |-> "system", content |-> SystemInstruction])
        m2 == Append(m1, [role |-> "user",
                          content |-> "Context:\n" \o ctx \o "\n\nQuestion: "
                                      \o user_query])
    IN  [messages |-> m2, chat_history |-> chat_history]

\* Line 172: the answer when the chat-completion call raised e.
ErrorAnswerNoDetail(e) == "Error generating response"

ErrorAnswer(e) == "Error generating response: " \o e.msg

\* Lines 175-176: the two appends to chat_history.
AppendTurnUserOnly(chat_history, user_query, ans) ==
    Append(chat_history, [role |-> "user", content |-> user_query])

AppendTurn(chat_history, user_query, ans) ==
    Append(Append(chat_history, [role |-> "user", content |-> user_query]),
           [role |-> "assistant", content |-> ans])

\* `if not AZURE_OPENAI_ENDPOINT or not AZURE_OPENAI_KEY`
QueryOpenAIMissing ==
    \/ ~Truthy(env["AZURE_OPENAI_ENDPOINT"])
    \/ ~Truthy(env["AZURE_OPENAI_API_KEY"])

\* `if not AZURE_SEARCH_ENDPOINT or not AZURE_SEARCH_API_KEY or not AZURE_SEARCH_INDEX`
QuerySearchMissing ==
    \/ ~Truthy(env["AZURE_SEARCH_ENDPOINT"])
    \/ ~Truthy(env["AZURE_SEARCH_API_KEY"])
    \/ ~Truthy(env["AZURE_SEARCH_INDEX"])

Hist == session[1]

clearLocals ==
    /\ query_embedding' = None
    /\ searched' = None
    /\ results' = << >>
    /\ chunks' = << >>
    /\ context_text' = ""
    /\ messages' = << >>
    /\ sent' = << >>
    /\ answer' = None

localVars == << query_embedding, searched, results, chunks, context_text,
                messages, sent, answer >>

\* Lines 15-46: a script run begins (Streamlit executes the file from the
\* top on every run): logger set-up, settings read and validated.  An
\* exception ends the run; Streamlit shows it in the page.
QueryStartup ==
    /\ script = "query" /\ pc = "start"
    /\ SetupCall("__main__", "chat.log", Level.INFO)
    /\ LET tbl == AfterSetup("__main__", "chat.log", Level.INFO)
       IN  IF QueryOpenAIMissing
           THEN /\ log' = Logged(tbl, << >>, "ERROR",
                                 "Missing Azure OpenAI configuration in .env")
                /\ raised' = [type |-> "ValueError",
                              msg |-> "Azure OpenAI settings must be set in environment variables"]
                /\ pc' = "error"
           ELSE IF QuerySearchMissing
           THEN /\ log' = Logged(tbl, << >>, "ERROR",
                                 "Missing Azure Search configuration in .env")
                /\ raised' = [type |-> "ValueError",
                              msg |-> "Azure Search settings must be set in environment variables"]
                /\ pc' = "error"
           ELSE /\ log' = Logged(tbl, << >>, "INFO", "Starting chatbot app")
                /\ raised' = raised
                /\ pc' = "clients"
    /\ calls' = << >>
    /\ thrown' = noThrow
    /\ UNCHANGED << script, env, nSetup, consoleUtf8, delivered, indexes,
                    deleted, existing_indexes, session, prompt, nPrompts, histAtCall >>
    /\ UNCHANGED localVars

\* Lines 55-73: the Azure OpenAI client and the search client are built.
QueryInitClients ==
    /\ script = "query" /\ pc = "clients"
    /\ calls' = calls \o << "AzureOpenAI", "SearchClient" >>
    /\ log' = Logged(loggers, Logged(loggers, log, "INFO",
                 "Azure OpenAI client initialized successfully"),
                 "INFO", "Connected to Azure Cognitive Search index")
    /\ pc' = "ui"
    /\ UNCHANGED << script, env, consoleUtf8, thrown, raised, indexes,
                    deleted, existing_indexes >>
    /\ UNCHANGED loggerVars
    /\ UNCHANGED queryVars

\* Lines 185-200 and 134, 86: the session state is initialised once, the
\* history rendered, and st.chat_input read; with a prompt, generate_answer
\* and get_top_chunks are entered.
QueryUI ==
    /\ script = "query" /\ pc = "ui"
    /\ LET fresh == session = << >>
           lg1 == IF fresh
                  THEN Logged(loggers, log, "INFO", "Initialized empty chat history")
                  ELSE log
           st  == IF fresh THEN << << >> >> ELSE session
       IN  /\ session' = st
           /\ IF prompt = None
              THEN /\ pc' = "idle"
                   /\ log' = lg1
                   /\ UNCHANGED histAtCall
              ELSE /\ pc' = "embed"
                   /\ log' = Logged(loggers, Logged(loggers, Logged(loggers, lg1,
                                "INFO", "User asked"),
                                "INFO", "Generating answer for user query"),
                                "INFO", "Retrieving top chunks for query")
                   /\ histAtCall' = st[1]
    /\ UNCHANGED << script, env, consoleUtf8, calls, thrown, raised, indexes,
                    deleted, existing_indexes, prompt, nPrompts >>
    /\ UNCHANGED loggerVars
    /\ UNCHANGED localVars

\* The user submits a prompt in the chat box: Streamlit runs the script again.
UserSubmit ==
    /\ script = "query" /\ pc = "idle"
    /\ nPrompts < MaxPrompts
    /\ \E q \in Queries : prompt' = Some(q)
    /\ nPrompts' = nPrompts + 1
    /\ pc' = "start"
    /\ UNCHANGED << script, env, consoleUtf8, log, calls, thrown, raised,
                    indexes, deleted, existing_indexes, session, histAtCall >>
    /\ UNCHANGED loggerVars
    /\ UNCHANGED localVars

\* Lines 119-121: the handler of get_top_chunks logs and returns [].
GtcHandlerKeepChunks(tr, step, e) ==
    /\ log' = Logged(loggers, log, "ERROR", "Error occurred during vector search")
    /\ thrown' = Append(thrown, [step |-> step, exc |-> e])
    /\ chunks' = chunks
    /\ calls' = Append(tr, "get_top_chunks.return")
    /\ pc' = "join"

GtcHandler(tr, step, e) ==
    /\ log' = Logged(loggers, log, "ERROR", "Error occurred during vector search")
    /\ thrown' = Append(thrown, [step |-> step, exc |-> e])
    /\ chunks' = << >>
    /\ calls' = Append(tr, "get_top_chunks.return")
    /\ pc' = "join"

\* The position after the embedding call raised.
AfterEmbedFailureSearchAnyway == "search"

AfterEmbedFailure == "join"

\* Lines 90-93: aoai_client.embeddings.create(input = query, ...)
QueryEmbed ==
    /\ script = "query" /\ pc = "embed"
    /\ \/ /\ query_embedding' = Some("vec(" \o Str(prompt) \o ")")
          /\ calls' = Append(calls, "embeddings.create")
          /\ pc' = "search"
          /\ UNCHANGED << log, thrown, chunks >>
       \/ /\ \E e \in Exceptions :
                /\ log' = Logged(loggers, log, "ERROR",
                                 "Error occurred during vector search")
                /\ thrown' = Append(thrown, [step |-> "embed", exc |-> e])
          /\ chunks' = << >>
          /\ pc' = AfterEmbedFailure
          /\ calls' = IF AfterEmbedFailure = "join"
                      THEN calls \o << "embeddings.create", "get_top_chunks.return" >>
                      ELSE Append(calls, "embeddings.create")
          /\ UNCHANGED query_embedding
    /\ UNCHANGED << script, env, consoleUtf8, raised, indexes, deleted, existing_indexes, session,
                    prompt, nPrompts, histAtCall, searched, results,
                    context_text, messages, sent, answer >>
    /\ UNCHANGED loggerVars

\* Lines 96-108: search_client.search(vector_queries = [...query_embedding...])
QuerySearch ==
    /\ script = "query" /\ pc = "search"
    /\ searched' = query_embedding
    /\ \/ /\ calls' = Append(calls, "search")
          /\ results' = << >>
          /\ chunks' = << >>
          /\ pc' = "iterate"
          /\ UNCHANGED << log, thrown >>
       \/ /\ \E e \in Exceptions : GtcHandler(Append(calls, "search"), "search", e)
          /\ UNCHANGED results
    /\ UNCHANGED << script, env, consoleUtf8, raised, indexes, deleted, existing_indexes, session,
                    prompt, nPrompts, histAtCall, query_embedding,
                    context_text, messages, sent, answer >>
    /\ UNCHANGED loggerVars

\* Lines 109-117: one turn of `for r in results`: the service yields the
\* next result, or the results are exhausted and the chunks are returned,
\* or the iteration raises.
QueryIterate ==
    /\ script = "query" /\ pc = "iterate"
    /\ \/ /\ Len(results) < MaxResults /\ Len(results) < TopK
          /\ \E r \in SearchDocs :
                /\ results' = Append(results, r)
                /\ chunks' = Collect(chunks, r)
          /\ UNCHANGED << pc, log, calls, thrown >>
       \/ /\ log' = Logged(loggers, log, "INFO", "Retrieved chunks for query")
          /\ calls' = Append(calls, "get_top_chunks.return")
          /\ pc' = "join"
          /\ UNCHANGED << results, chunks, thrown >>
       \/ /\ \E e \in Exceptions : GtcHandler(calls, "iterate", e)
          /\ UNCHANGED results
    /\ UNCHANGED << script, env, consoleUtf8, raised, indexes, deleted, existing_indexes, session,
                    prompt, nPrompts, histAtCall, query_embedding, searched,
                    context_text, messages, sent, answer >>
    /\ UNCHANGED loggerVars

\* Lines 138-157: the context is joined and the message list built.
QueryBuildPrompt ==
    /\ script = "query" /\ pc = "join"
    /\ LET ctx == ContextText(chunks)
           b   == BuildMessages(Hist, ctx, Str(prompt))
       IN  /\ context_text' = ctx
           /\ messages' = b.messages
           /\ session' = << b.chat_history >>
    /\ calls' = Append(calls, "join")
    /\ pc' = "chat"
    /\ UNCHANGED << script, env, consoleUtf8, log, thrown, raised, indexes,
                    deleted, existing_indexes, prompt, nPrompts, histAtCall,
                    query_embedding, searched, results, chunks, sent, answer >>
    /\ UNCHANGED loggerVars

\* Lines 160-172: aoai_client.chat.completions.create(messages = messages, ...)
QueryChat ==
    /\ script = "query" /\ pc = "chat"
    /\ calls' = Append(calls, "chat.completions.create")
    /\ sent' = messages
    /\ \/ /\ \E a \in Answers : answer' = Some(a)
          /\ log' = Logged(loggers, log, "INFO", "Successfully generated AI response")
          /\ UNCHANGED thrown
       \/ \E e \in Exceptions :
             /\ answer' = Some(ErrorAnswer(e))
             /\ log' = Logged(loggers, log, "ERROR", "Failed to generate AI response")
             /\ thrown' = Append(thrown, [step |-> "chat", exc |-> e])
    /\ pc' = "append"
    /\ UNCHANGED << script, env, consoleUtf8, raised, indexes, deleted, existing_indexes, session,
                    prompt, nPrompts, histAtCall, query_embedding, searched,
                    results, chunks, context_text, messages >>
    /\ UNCHANGED loggerVars

\* Lines 175-178 and 201: the turn is appended to chat_history, which is
\* returned and stored back in the session state.
QueryAppend ==
    /\ script = "query" /\ pc = "append"
    /\ session' = << AppendTurn(Hist, Str(prompt), Str(answer)) >>
    /\ calls' = Append(calls, "generate_answer.return")
    /\ pc' = "rerun"
    /\ UNCHANGED << script, env, consoleUtf8, log, thrown, raised, indexes,
                    deleted, existing_indexes, prompt, nPrompts, histAtCall >>
    /\ UNCHANGED loggerVars
    /\ UNCHANGED localVars

\* Line 202: st.rerun() ends this script run and starts the next one, in
\* which st.chat_input returns None.
QueryRerun ==
    /\ script = "query" /\ pc = "rerun"
    /\ calls' = Append(calls, "st.rerun")
    /\ prompt' = None
    /\ clearLocals
    /\ pc' = "start"
    /\ UNCHANGED << script, env, consoleUtf8, log, thrown, raised, indexes,
                    deleted, existing_indexes, session, nPrompts, histAtCall >>
    /\ UNCHANGED loggerVars

---------------------------------------------------------------------------
(* The specification.                                                      *)

Scripts == {"logger_config", "create_index", "ingest", "query"}

ServiceIndexes == {"client-manual-index", "docs-index"}

Init ==
    /\ script \in Scripts
    /\ pc = "start"
    /\ env \in [Settings -> {None, Some(""), Some("set"), Some("docs-index")}]
    /\ \A n \in Settings :
          env[n] \in (IF n \in ReadBy(script) THEN EnvValues(n) ELSE {None})
    /\ loggers \in [LoggerNames \cup {"root"} -> {FreshLogger} \cup RootLoggers]
    /\ \A n \in LoggerNames : loggers[n] = FreshLogger
    /\ loggers["root"] \in RootLoggers
    /\ script # "logger_config" => loggers["root"].handlers = << >>
    /\ firstArgs = [n \in LoggerNames |-> None]
    /\ nSetup = 0
    /\ consoleUtf8 \in BOOLEAN
    /\ delivered = << >>
    /\ log = << >>
    /\ calls = << >>
    /\ thrown = noThrow
    /\ raised = noExc
    /\ indexes \in (IF script = "create_index" THEN SUBSET ServiceIndexes
                    ELSE {{}})
    /\ deleted = FALSE
    /\ existing_indexes = None
    /\ session = << >>
    /\ prompt = None
    /\ nPrompts = 0
    /\ histAtCall = << >>
    /\ query_embedding = None
    /\ searched = None
    /\ results = << >>
    /\ chunks = << >>
    /\ context_text = ""
    /\ messages = << >>
    /\ sent = << >>
    /\ answer = None

Next ==
    \/ CallSetupLogger
    \/ EmitRecord
    \/ IndexStartup
    \/ IndexInitClient
    \/ IndexList
    \/ IndexDelete
    \/ IndexCreate
    \/ IngestStartup
    \/ IngestLoad
    \/ IngestSetup
    \/ IngestBuild
    \/ QueryStartup
    \/ QueryInitClients
    \/ QueryUI
    \/ UserSubmit
    \/ QueryEmbed
    \/ QuerySearch
    \/ QueryIterate
    \/ QueryBuildPrompt
    \/ QueryChat
    \/ QueryAppend
    \/ QueryRerun

Spec == Init /\ [][Next]_vars

---------------------------------------------------------------------------
(* Properties.                                                             *)

InQuery == script = "query"

\* generate_answer is executing (or has just returned, before the rerun).
InCall ==
    /\ script = "query"
    /\ pc \in {"embed", "search", "iterate", "join", "chat", "append", "rerun"}

\* The steps of one prompt, as they appear in the run's trace.
PromptSteps ==
    SelectSeq(calls, LAMBDA c : c \in {"embeddings.create", "search", "join",
                                       "chat.completions.create", "st.rerun"})

IsPrefix(a, b) == Len(a) <= Len(b) /\ SubSeq(b, 1, Len(a)) = a

\* The first position of x in seq, or 0.
Pos(seq, x) ==
    IF \E i \in DOMAIN seq : seq[i] = x
    THEN CHOOSE i \in DOMAIN seq :
            seq[i] = x /\ \A j \in DOMAIN seq : seq[j] = x => i <= j
    ELSE 0

Threw(step) == \E i \in DOMAIN thrown : thrown[i].step = step

\* C1: for every prompt the steps run in one fixed order, each at most once:
\* embed, vector search with that embedding, join, chat completion, rerun;
\* the chat call comes after get_top_chunks returned, the rerun after
\* generate_answer returned, and no search is issued once the embedding
\* call failed.
C1_LinearOrder ==
    InQuery =>
      /\ IF Threw("embed")
         THEN IsPrefix(PromptSteps, << "embeddings.create", "join",
                                       "chat.completions.create", "st.rerun" >>)
         ELSE IsPrefix(PromptSteps, << "embeddings.create", "search", "join",
                                       "chat.completions.create", "st.rerun" >>)
      /\ Threw("embed") => Count(calls, "search") = 0
      /\ (InCall /\ Count(calls, "search") > 0) =>
            /\ prompt # None
            /\ searched = Some("vec(" \o Str(prompt) \o ")")
      /\ Count(calls, "chat.completions.create") > 0 =>
            /\ Pos(calls, "get_top_chunks.return") > 0
            /\ Pos(calls, "get_top_chunks.return")
                  < Pos(calls, "chat.completions.create")
      /\ Count(calls, "st.rerun") > 0 =>
            /\ Pos(calls, "generate_answer.return") > 0
            /\ Pos(calls, "generate_answer.return") < Pos(calls, "st.rerun")
      /\ Count(calls, "get_top_chunks.return") <= 1
      /\ Count(calls, "generate_answer.return") <= 1

C1_Witness ==
    /\ InQuery
    /\ PromptSteps = << "embeddings.create", "search", "join",
                        "chat.completions.create", "st.rerun" >>
    /\ nPrompts = 2

\* The user message the claim describes for chunks cs and query q.
ContextMessage(cs, q) ==
    [role |-> "user",
     content |-> "Context:\n" \o JoinNl(cs) \o "\n\nQuestion: " \o q]

\* C2: the list sent to the chat-completion API is the history as it was
\* at the call, in order, then one system message, then one user message
\* "Context:\n<chunks joined by newline>\n\nQuestion: <q>"; building and
\* sending it leaves the history unchanged, and the history never holds a
\* system message or a context text.
C2_MessagesSent ==
    InQuery =>
      /\ pc \in {"append", "rerun"} =>
            /\ Len(sent) = Len(histAtCall) + 2
            /\ SubSeq(sent, 1, Len(histAtCall)) = histAtCall
            /\ sent[Len(histAtCall) + 1].role = "system"
            /\ sent[Len(histAtCall) + 1].content = SystemInstruction
            /\ sent[Len(histAtCall) + 2] = ContextMessage(chunks, Str(prompt))
      /\ pc \in {"chat", "append"} => Hist = histAtCall
      /\ session # << >> =>
            \A i \in DOMAIN Hist :
               /\ Hist[i].role # "system"
               /\ Hist[i].role = "user" => Hist[i].content \in Queries

C2_Witness ==
    /\ InQuery /\ pc = "append"
    /\ Len(histAtCall) = 2
    /\ Len(chunks) = 2
    /\ Hist = histAtCall

\* C3: when the chat-completion call raises e, generate_answer raises
\* nothing: the answer is "Error generating response: <e>", the failure is
\* logged, and the history grows by the user turn and an assistant turn
\* holding that string.
C3_ChatFailure ==
    (InCall /\ Threw("chat")) =>
      LET e == Last(thrown).exc
          err == "Error generating response: " \o e.msg
      IN  /\ raised = noExc
          /\ pc \in {"append", "rerun"}
          /\ answer = Some(err)
          /\ Last(log) = << "ERROR", "Failed to generate AI response" >>
          /\ pc = "rerun" =>
                Hist = histAtCall \o
                       << [role |-> "user", content |-> Str(prompt)],
                          [role |-> "assistant", content |-> err] >>

\* A second prompt is being answered after a first one whose chat call failed.
C3_Witness ==
    /\ InQuery /\ Threw("chat") /\ pc = "rerun"
    /\ Len(histAtCall) = 2
    /\ histAtCall[2].content = "Error generating response: timed out"

RetrievalFailed == Threw("embed") \/ Threw("search") \/ Threw("iterate")

\* C4: get_top_chunks never raises: when the embedding call, the search or
\* the iteration fails it logs the exception and returns [], whatever was
\* collected, and generate_answer still calls the chat-completion API
\* exactly once, with an empty context.
C4_RetrievalFailure ==
    InQuery =>
      /\ Count(calls, "chat.completions.create") <= 1
      /\ (InCall /\ RetrievalFailed) =>
            /\ raised = noExc
            /\ pc \in {"join", "chat", "append", "rerun"}
            /\ chunks = << >>
            /\ << "ERROR", "Error occurred during vector search" >>
                  \in {log[i] : i \in DOMAIN log}
            /\ Count(calls, "get_top_chunks.return") = 1
            /\ pc \in {"chat", "append", "rerun"} => context_text = ""
            /\ pc \in {"append", "rerun"} =>
                  /\ Count(calls, "chat.completions.create") = 1
                  /\ Last(sent).content =
                        "Context:\n\n\nQuestion: " \o Str(prompt)

\* The iteration failed after a chunk had been collected, and the chat
\* call was made.
C4_Witness ==
    /\ InQuery /\ Threw("iterate") /\ pc = "append"
    /\ Len(results) >= 1
    /\ Truthy(Get(results[1], "content", None))
    /\ chunks = << >>

\* The external steps the scripts run inside a try block, with the message
\* their handler logs and the message logged when the step succeeded.
TrySteps ==
    { [step |-> "list_index_names", handler |-> "Failed to create/update index",
       success |-> "Index created successfully!"],
      [step |-> "delete_index", handler |-> "Failed to create/update index",
       success |-> "Index created successfully!"],
      [step |-> "create_index", handler |-> "Failed to create/update index",
       success |-> "Index created successfully!"],
      [step |-> "load_data", handler |-> "Failed while reading documents",
       success |-> "Loaded documents"],
      [step |-> "VectorStoreIndex",
       handler |-> "Failed while building/pushing index",
       success |-> "Successfully pushed chunks into Azure AI Search index"] }

LogHas(lvl, msg) == \E i \in DOMAIN log : log[i] = << lvl, msg >>

\* C5: in the index-creation and ingestion scripts an exception raised by
\* an external step of a try block is logged and re-raised unchanged: the
\* run ends in the error state, the step was called once and is the last
\* call of the run, and the step's success message is not logged.
C5_LogAndReraise ==
    \A t \in TrySteps :
       (script \in {"create_index", "ingest"} /\ Threw(t.step)) =>
          /\ Len(thrown) = 1
          /\ pc = "error"
          /\ raised = thrown[1].exc
          /\ LogHas("ERROR", t.handler)
          /\ ~LogHas("INFO", t.success)
          /\ Count(calls, t.step) = 1
          /\ Last(calls) = t.step

C5_Witness ==
    /\ script = "create_index"
    /\ Threw("delete_index")
    /\ pc = "error"
    /\ raised \in Exceptions

\* The settings each script requires, as the claim lists them.
Required(s) ==
    CASE s = "create_index" -> {"AZURE_SEARCH_ENDPOINT", "AZURE_SEARCH_API_KEY"}
      [] s = "ingest" -> {"AZURE_SEARCH_ENDPOINT", "AZURE_SEARCH_API_KEY",
                          "AZURE_SEARCH_INDEX", "AZURE_OPENAI_ENDPOINT",
                          "AZURE_OPENAI_API_KEY",
                          "AZURE_OPENAI_EMBED_DEPLOYMENT"}
      [] s = "query" -> {"AZURE_OPENAI_ENDPOINT", "AZURE_OPENAI_API_KEY",
                         "AZURE_SEARCH_ENDPOINT", "AZURE_SEARCH_API_KEY",
                         "AZURE_SEARCH_INDEX"}
      [] OTHER -> {}

UnsetOrEmpty(v) == v = None \/ v = Some("")

\* C6: when a required setting is unset or empty the script logs an error
\* and raises ValueError before anything else: no client is constructed
\* and no external call is made in the run.
C6_ConfigValidatedFirst ==
    (\E n \in Required(script) : UnsetOrEmpty(env[n])) =>
       /\ calls = << >>
       /\ thrown = << >>
       /\ pc \in {"start", "error"}
       /\ pc = "error" =>
             /\ raised.type = "ValueError"
             /\ \E i \in DOMAIN log : log[i][1] = "ERROR"

\* The query script stopped on an empty index name, the last setting it checks.
C6_Witness ==
    /\ script = "query" /\ pc = "error"
    /\ env["AZURE_SEARCH_INDEX"] = Some("")
    /\ \A n \in Required("query") \ {"AZURE_SEARCH_INDEX"} : Truthy(env[n])
    /\ raised.type = "ValueError"

\* Prompts whose generate_answer call has appended its turn.
Answered == nPrompts - (IF prompt # None /\ pc # "rerun" THEN 1 ELSE 0)

\* C7: after n prompts the history has 2n entries alternating user,
\* assistant; a call of generate_answer appends the user entry with the raw
\* query and the assistant entry with the returned answer, and leaves the
\* earlier entries as they were.
C7_HistoryShape ==
    (InQuery /\ session # << >>) =>
       /\ Len(Hist) = 2 * Answered
       /\ \A i \in DOMAIN Hist :
             Hist[i].role = (IF i % 2 = 1 THEN "user" ELSE "assistant")
       /\ pc \in {"embed", "search", "iterate", "join", "chat", "append"} =>
             Hist = histAtCall
       /\ pc = "rerun" =>
             /\ Len(Hist) = Len(histAtCall) + 2
             /\ SubSeq(Hist, 1, Len(histAtCall)) = histAtCall
             /\ Hist[Len(Hist) - 1] = [role |-> "user", content |-> Str(prompt)]
             /\ Hist[Len(Hist)] = [role |-> "assistant", content |-> Str(answer)]

\* Two prompts were answered, the first after a failed retrieval or generation.
C7_Witness ==
    /\ InQuery /\ pc = "rerun"
    /\ Len(Hist) = 4
    /\ Hist[2].content = "Error generating response: 403 forbidden"
    /\ Hist[4].content \in Answers

\* The parts of C8 about the order of the calls: delete_index only when the
\* configured name was listed, and before create_index; create_index at
\* most once.
IndexCallOrder ==
    script = "create_index" =>
       /\ Count(calls, "delete_index") > 0 =>
             /\ existing_indexes # None
             /\ AZURE_SEARCH_INDEX \in existing_indexes[1]
       /\ (Count(calls, "delete_index") > 0 /\ Count(calls, "create_index") > 0) =>
             Pos(calls, "delete_index") < Pos(calls, "create_index")
       /\ Count(calls, "create_index") <= 1
       /\ Count(calls, "delete_index") <= 1

RunEnded == pc \in {"done", "error"}

\* C8 as stated: the call order holds and every run that deleted the
\* existing index ends with an index of that name present.
C8_AsStated ==
    /\ IndexCallOrder
    /\ (script = "create_index" /\ deleted /\ RunEnded) =>
          AZURE_SEARCH_INDEX \in indexes

\* C8 as amended: the call order holds; a run that deleted the existing
\* index and whose create_index call returned ends with the index present,
\* and one whose create_index call raised ends in the error state with the
\* index absent.
C8_DeleteThenCreate ==
    /\ IndexCallOrder
    /\ (script = "create_index" /\ deleted /\ RunEnded) =>
          /\ Count(calls, "create_index") = 1
          /\ pc = "done" => AZURE_SEARCH_INDEX \in indexes
          /\ pc = "error" =>
                /\ Threw("create_index")
                /\ AZURE_SEARCH_INDEX \notin indexes

C8_Witness ==
    /\ script = "create_index" /\ deleted /\ pc = "done"
    /\ calls = << "SearchIndexClient", "list_index_names", "delete_index",
                  "create_index" >>
    /\ AZURE_SEARCH_INDEX \in indexes

\* The chunk the claim describes for a search result r.
ChunkOf(r) ==
    LET present(k) == k \in DOMAIN r /\ r[k] # None /\ r[k][1] # ""
        source == IF present("metadata") THEN r.metadata[1]
                  ELSE IF "doc_id" \in DOMAIN r THEN Str(r.doc_id) ELSE ""
    IN  r.content[1] \o "\n(Source: " \o source \o ")"

RECURSIVE ChunksOf(_)
ChunksOf(rs) ==
    IF rs = << >> THEN << >>
    ELSE LET r == Head(rs)
         IN  IF "content" \in DOMAIN r /\ r.content # None /\ r.content[1] # ""
             THEN << ChunkOf(r) >> \o ChunksOf(Tail(rs))
             ELSE ChunksOf(Tail(rs))

\* C9: on success get_top_chunks returns, in the order of the results, one
\* string "<content>\n(Source: <metadata if non-empty, else doc_id>)" per
\* result with non-empty content, and never more strings than results.
C9_TopChunks ==
    (InQuery /\ pc \in {"iterate", "join"} /\ ~RetrievalFailed) =>
       /\ chunks = ChunksOf(results)
       /\ Len(chunks) <= Len(results)

\* get_top_chunks returned after two results, one of them without content;
\* the chunk kept names the doc_id because the result had no metadata.
C9_Witness ==
    /\ InQuery /\ pc = "join" /\ ~RetrievalFailed
    /\ Len(results) = 2
    /\ chunks = << "Open 9-5.\n(Source: d2)" >>

\* C10: whatever calls of setup_logger were made for a name, its logger has
\* the two handlers of the first call (file, then console) and does not
\* propagate, and no record reaches the same destination twice.
C10_SetupLoggerIdempotent ==
    /\ \A n \in LoggerNames :
          firstArgs[n] # None =>
             LET a == firstArgs[n][1]
             IN  /\ loggers[n].handlers =
                       << FileHandler(a.log_file, a.level),
                          ConsoleHandler(a.level, consoleUtf8) >>
                 /\ loggers[n].propagate = FALSE
    /\ \A i, j \in DOMAIN delivered :
          i # j => Dest(delivered[i]) # Dest(delivered[j])

\* A later call changed the level of a logger whose handlers the first call
\* attached, the root logger has a console handler, and a record was emitted.
C10_Witness ==
    /\ script = "logger_config"
    /\ nSetup >= 2
    /\ \E n \in LoggerNames :
          /\ firstArgs[n] # None
          /\ loggers[n].level # firstArgs[n][1].level
    /\ loggers["root"].handlers # << >>
    /\ Len(delivered) = 2

============================================================================
